---- MODULE Spec2Model ----
(***************************************************************************)
(* Model of src/src/peer.ts: a peer-to-peer NDJSON messenger.              *)
(*   - startServer: per-connection 'data' handler that splits the byte     *)
(*     stream into lines, validates each and writes one Ack per line.      *)
(*   - sendMessage: opens one connection, writes one Msg frame, resolves   *)
(*     a Promise on the first line received or on a socket error.          *)
(* Bytes are modelled as JSON tokens (brace, member, scalar, whitespace,   *)
(* line terminator, garbage); a string is a sequence of tokens.            *)
(***************************************************************************)
EXTENDS Integers, Sequences, FiniteSets, TLC

(* ------------------------------ bounds --------------------------------- *)
\* total number of writes the remote peers make towards the listener
MaxLines == 2
\* total number of writes the remote servers make towards sendMessage calls
MaxReplies == 2
\* largest number of members in a generated record text
MaxMembers == 3

(* ------------------------------ tokens --------------------------------- *)
Tok(k, n, t, v) == [k |-> k, n |-> n, t |-> t, v |-> v]
NL == Tok("nl", "", "", "")
SP == Tok("sp", "", "", "")
LB == Tok("lb", "", "", "")
RB == Tok("rb", "", "", "")
GARB == Tok("garb", "", "", "")
Fld(n, t, v) == Tok("fld", n, t, v)
Scal(t, v) == Tok("scal", "", t, v)

(* ------------------------------ JS values ------------------------------ *)
JVal(t, v) == [t |-> t, v |-> v]
Undef == JVal("undef", "")
Str(s) == JVal("str", s)
Num(s) == JVal("num", s)
Bool(s) == JVal("bool", s)
Keys == {"type", "from", "text", "ok", "receivedAt", "error"}
KeyOrder == <<"type", "from", "text", "ok", "receivedAt", "error">>
NoFields == [key \in Keys |-> Undef]
Obj(f) == [kind |-> "obj", sv |-> Undef, f |-> f]
Scalar(j) == [kind |-> "scal", sv |-> j, f |-> NoFields]
JSNull == Scalar(JVal("null", ""))
SyntaxError == [kind |-> "throw", sv |-> Undef, f |-> NoFields]

\* type Msg = { type: "msg"; from: string; text: string }
MsgRec(from, text) ==
    Obj([NoFields EXCEPT !["type"] = Str("msg"), !["from"] = Str(from), !["text"] = Str(text)])
\* { type: "ack", ok: true, receivedAt }
AckOk(t) ==
    Obj([NoFields EXCEPT !["type"] = Str("ack"), !["ok"] = Bool("true"), !["receivedAt"] = Num(t)])
\* { type: "ack", ok: false, error }
AckErr(e) ==
    Obj([NoFields EXCEPT !["type"] = Str("ack"), !["ok"] = Bool("false"), !["error"] = Str(e)])

(* ------------------------------ strings -------------------------------- *)
\* F applied to x, with x evaluated to a value first
Let(F(_), x) == LET f[v \in {x}] == F(v) IN f[x]

\* String.prototype.indexOf("\n"), 1-based; 0 stands for -1
IndexOfNL(s) ==
    IF \E i \in 1..Len(s) : s[i] = NL
    THEN CHOOSE i \in 1..Len(s) : s[i] = NL /\ \A j \in 1..(i - 1) : s[j] # NL
    ELSE 0

\* String.prototype.trim()
RECURSIVE TrimLeft(_)
TrimLeft(s) == IF s # <<>> /\ Head(s) \in {SP, NL} THEN TrimLeft(Tail(s)) ELSE s
RECURSIVE TrimRight(_)
TrimRight(s) ==
    IF s # <<>> /\ s[Len(s)] \in {SP, NL} THEN TrimRight(SubSeq(s, 1, Len(s) - 1)) ELSE s
Trim(s) == Let(LAMBDA v : TrimRight(TrimLeft(v)), s)

\* JSON.stringify of a record: members in insertion order, no whitespace
RECURSIVE Members(_, _)
Members(f, i) ==
    IF i > Len(KeyOrder) THEN <<>>
    ELSE LET key == KeyOrder[i] IN
         (IF f[key] = Undef THEN <<>> ELSE <<Fld(key, f[key].t, f[key].v)>>) \o Members(f, i + 1)
Stringify(val) ==
    Let(LAMBDA v : IF v.kind = "obj" THEN <<LB>> \o Members(v.f, 1) \o <<RB>>
                   ELSE <<Scal(v.sv.t, v.sv.v)>>,
        val)

\* JSON.parse: whitespace between tokens is ignored; a text is one scalar or
\* one brace-delimited member list (a repeated key keeps its last value);
\* anything else throws
RECURSIVE Collect(_, _)
Collect(ms, f) ==
    IF ms = <<>> THEN f
    ELSE Collect(Tail(ms), [f EXCEPT ![Head(ms).n] = JVal(Head(ms).t, Head(ms).v)])
JSONParse(line) ==
    Let(LAMBDA s :
            IF Len(s) = 1 /\ s[1].k = "scal" THEN Scalar(JVal(s[1].t, s[1].v))
            ELSE IF /\ Len(s) >= 2
                    /\ s[1] = LB
                    /\ s[Len(s)] = RB
                    /\ \A i \in 2..(Len(s) - 1) : s[i].k = "fld"
                 THEN Obj(Collect(SubSeq(s, 2, Len(s) - 1), NoFields))
                 ELSE SyntaxError,
        SelectSeq(line, LAMBDA x : x \notin {SP, NL}))

(* ------------------------------ inputs --------------------------------- *)
Names == {"A", "B"}
Texts == {"hi"}
Times == {"1", "2"}
Conns == {"c1", "c2"}
Calls == {"k1", "k2"}

ValidLines == {Stringify(MsgRec(from, text)) : from \in Names, text \in Texts}
\* what a remote peer may write to the listener before a terminator
PeerLines ==
    { Stringify(MsgRec("A", "hi")),
      <<GARB>>,
      <<LB, Fld("type", "str", "other"), RB>>,
      <<Scal("null", "")>>,
      <<>>,
      <<SP>> }
\* lines a remote peer may also write without their terminator
TailLines == {Stringify(MsgRec("A", "hi"))}

(* ------------------------------ state ---------------------------------- *)
VARIABLES
    proc,       \* the process: where it is, and the options it was started with
    sConn,      \* listener side: "idle" | "open" | "errored" | "closed" per accepted socket
    sPeerClosed, \* the remote peer of the accepted socket has closed its end
    sWire,      \* bytes written by the remote peer, not yet read by the handler
    sBuf,       \* startServer: let buf
    sOut,       \* strings passed to socket.write by the handler, in order
    sLog,       \* messages printed by the handler (from, text), in order
    sRcvd,      \* every byte the 'data' handler has been given so far
    sSeen,      \* kinds of chunk seen so far: one ending inside a line, one with several terminators
    peerWrites, \* number of writes made by remote peers
    cState,     \* sendMessage's socket: "idle" | "connecting" | "failed" | "open" |
                \* "ended" (after socket.end()) | "errored" | "closed"
    cOpts,      \* sendMessage: opts.from, opts.text
    cWire,      \* bytes written by the remote server, not yet read by the call
    cBuf,       \* sendMessage: let buf
    cResult,    \* the Promise: Pending or the value it was resolved with
    cOut,       \* strings passed to socket.write by the call, in order
    cAttempts,  \* number of net.createConnection calls made by the call
    replies     \* number of writes made by remote servers

sVars == <<proc, sConn, sPeerClosed, sWire, sBuf, sOut, sLog, sRcvd, sSeen, peerWrites>>
cVars == <<cState, cOpts, cWire, cBuf, cResult, cOut, cAttempts, replies>>
vars == <<proc, sConn, sPeerClosed, sWire, sBuf, sOut, sLog, sRcvd, sSeen, peerWrites,
          cState, cOpts, cWire, cBuf, cResult, cOut, cAttempts, replies>>

Pending == [kind |-> "pending", sv |-> Undef, f |-> NoFields]
NoOpts == [from |-> "", text |-> ""]

\* Number(arg("--port", "5050")): NaN or an integer
DefaultPort == 5050
Port(nan, n) == [nan |-> nan, n |-> n]
\* the process once startServer(PORT) has run with the default options
Listening == [pc |-> "listening", port |-> Port(FALSE, DefaultPort), name |-> "Anonymous",
              sendMode |-> FALSE, to |-> "", text |-> ""]

Init ==
    /\ proc = Listening
    /\ sPeerClosed = [c \in Conns |-> FALSE]
    /\ sConn = [c \in Conns |-> "idle"]
    /\ sWire = [c \in Conns |-> <<>>]
    /\ sBuf = [c \in Conns |-> <<>>]
    /\ sOut = [c \in Conns |-> <<>>]
    /\ sLog = [c \in Conns |-> <<>>]
    /\ sRcvd = [c \in Conns |-> <<>>]
    /\ sSeen = [c \in Conns |-> [split |-> FALSE, multi |-> FALSE]]
    /\ peerWrites = 0
    /\ cState = [k \in Calls |-> "idle"]
    /\ cOpts = [k \in Calls |-> NoOpts]
    /\ cWire = [k \in Calls |-> <<>>]
    /\ cBuf = [k \in Calls |-> <<>>]
    /\ cResult = [k \in Calls |-> Pending]
    /\ cOut = [k \in Calls |-> <<>>]
    /\ cAttempts = [k \in Calls |-> 0]
    /\ replies = 0

(* ------------------------- Connection Handler -------------------------- *)
\* variant: the check of msg.text is left out
IsMsgShapeNoText(msg) ==
    /\ msg.kind = "obj"
    /\ msg.f["type"] = Str("msg")
    /\ msg.f["from"].t = "str"

\* msg?.type === "msg" && typeof msg.from === "string" && typeof msg.text === "string"
IsMsgShape(msg) ==
    /\ msg.kind = "obj"
    /\ msg.f["type"] = Str("msg")
    /\ msg.f["from"].t = "str"
    /\ msg.f["text"].t = "str"

\* the try/catch of the 'data' handler: the Ack written for one non-empty line
AckFor(line, t) ==
    Let(LAMBDA msg : IF msg = SyntaxError THEN AckErr("bad_json")
                     ELSE IF IsMsgShape(msg) THEN AckOk(t)
                     ELSE AckErr("unknown_type_or_shape"),
        JSONParse(line))

\* console.log of an incoming message, for one non-empty line
LogFor(line) ==
    Let(LAMBDA msg : IF msg # SyntaxError /\ IsMsgShape(msg)
                     THEN <<[from |-> msg.f["from"].v, text |-> msg.f["text"].v]>>
                     ELSE <<>>,
        JSONParse(line))

\* variant: without "if (!line) continue", an empty line goes on to JSON.parse
RECURSIVE ProcessLinesNoSkip(_, _)
ProcessLinesNoSkip(st0, t) ==
    Let(LAMBDA st :
            LET idx == IndexOfNL(st.buf) IN
            IF idx = 0 THEN st
            ELSE LET line == Trim(SubSeq(st.buf, 1, idx - 1))
                     rest == SubSeq(st.buf, idx + 1, Len(st.buf))
                 IN ProcessLinesNoSkip([buf |-> rest,
                                        out |-> Append(st.out, Stringify(AckFor(line, t)) \o <<NL>>),
                                        log |-> st.log \o LogFor(line)], t),
        st0)

\* variant: the remainder after the last "\n" is dropped, not kept in buf
RECURSIVE ProcessLinesDropRest(_, _)
ProcessLinesDropRest(st0, t) ==
    Let(LAMBDA st :
            LET idx == IndexOfNL(st.buf) IN
            IF idx = 0 THEN [st EXCEPT !.buf = <<>>]
            ELSE LET line == Trim(SubSeq(st.buf, 1, idx - 1))
                     rest == SubSeq(st.buf, idx + 1, Len(st.buf))
                 IN IF line = <<>>
                    THEN ProcessLinesDropRest([st EXCEPT !.buf = rest], t)
                    ELSE ProcessLinesDropRest(
                             [buf |-> rest,
                              out |-> Append(st.out, Stringify(AckFor(line, t)) \o <<NL>>),
                              log |-> st.log \o LogFor(line)], t),
        st0)

\* variant: "if" in place of "while", one line per 'data' event
ProcessLinesOnce(st0, t) ==
    Let(LAMBDA st :
            LET idx == IndexOfNL(st.buf) IN
            IF idx = 0 THEN st
            ELSE LET line == Trim(SubSeq(st.buf, 1, idx - 1))
                     rest == SubSeq(st.buf, idx + 1, Len(st.buf))
                 IN IF line = <<>>
                    THEN [st EXCEPT !.buf = rest]
                    ELSE [buf |-> rest,
                          out |-> Append(st.out, Stringify(AckFor(line, t)) \o <<NL>>),
                          log |-> st.log \o LogFor(line)],
        st0)

\* while ((idx = buf.indexOf("\n")) >= 0) { ... }
RECURSIVE ProcessLines(_, _)
ProcessLines(st0, t) ==
    Let(LAMBDA st :
            LET idx == IndexOfNL(st.buf) IN
            IF idx = 0 THEN st
            ELSE LET line == Trim(SubSeq(st.buf, 1, idx - 1))
                     rest == SubSeq(st.buf, idx + 1, Len(st.buf))
                 IN IF line = <<>>
                    THEN ProcessLines([st EXCEPT !.buf = rest], t)
                    ELSE ProcessLines([buf |-> rest,
                                       out |-> Append(st.out, Stringify(AckFor(line, t)) \o <<NL>>),
                                       log |-> st.log \o LogFor(line)], t),
        st0)

\* variant: "let buf" declared outside the connection callback, one for all sockets
OnServerDataShared(c, chunk, t) ==
    \E st \in {ProcessLines([buf |-> sBuf[c] \o chunk, out |-> sOut[c], log |-> sLog[c]], t)} :
    /\ sBuf' = [d \in Conns |-> st.buf]
    /\ sOut' = [sOut EXCEPT ![c] = st.out]
    /\ sLog' = [sLog EXCEPT ![c] = st.log]
    /\ sRcvd' = [sRcvd EXCEPT ![c] = @ \o chunk]
    /\ sSeen' = [sSeen EXCEPT ![c] =
                    [split |-> @.split \/ chunk[Len(chunk)] # NL,
                     multi |-> @.multi \/ Cardinality({i \in 1..Len(chunk) : chunk[i] = NL}) > 1]]

\* variant: "buf = chunk" in place of "buf += chunk"
OnServerDataNoAccum(c, chunk, t) ==
    \E st \in {ProcessLines([buf |-> chunk, out |-> sOut[c], log |-> sLog[c]], t)} :
    /\ sBuf' = [sBuf EXCEPT ![c] = st.buf]
    /\ sOut' = [sOut EXCEPT ![c] = st.out]
    /\ sLog' = [sLog EXCEPT ![c] = st.log]
    /\ sRcvd' = [sRcvd EXCEPT ![c] = @ \o chunk]
    /\ sSeen' = [sSeen EXCEPT ![c] =
                    [split |-> @.split \/ chunk[Len(chunk)] # NL,
                     multi |-> @.multi \/ Cardinality({i \in 1..Len(chunk) : chunk[i] = NL}) > 1]]

\* socket.on("data", (chunk) => { buf += chunk; while ... })
OnServerData(c, chunk, t) ==
    \E st \in {ProcessLines([buf |-> sBuf[c] \o chunk, out |-> sOut[c], log |-> sLog[c]], t)} :
    /\ sBuf' = [sBuf EXCEPT ![c] = st.buf]
    /\ sOut' = [sOut EXCEPT ![c] = st.out]
    /\ sLog' = [sLog EXCEPT ![c] = st.log]
    /\ sRcvd' = [sRcvd EXCEPT ![c] = @ \o chunk]
    /\ sSeen' = [sSeen EXCEPT ![c] =
                    [split |-> @.split \/ chunk[Len(chunk)] # NL,
                     multi |-> @.multi \/ Cardinality({i \in 1..Len(chunk) : chunk[i] = NL}) > 1]]

\* net.createServer((socket) => { let buf = ""; ... })
Accept(c) ==
    /\ proc.pc = "listening"
    /\ sConn[c] = "idle"
    /\ sConn' = [sConn EXCEPT ![c] = "open"]
    /\ UNCHANGED <<proc, sPeerClosed, sWire, sBuf, sOut, sLog, sRcvd, sSeen, peerWrites>>
    /\ UNCHANGED cVars

\* a remote peer writes a line, with or without its terminator
PeerWrite(c, l, term) ==
    /\ sConn[c] = "open"
    /\ ~sPeerClosed[c]
    /\ term \/ l \in TailLines
    /\ peerWrites < MaxLines
    /\ peerWrites' = peerWrites + 1
    /\ sWire' = [sWire EXCEPT ![c] = @ \o l \o (IF term THEN <<NL>> ELSE <<>>)]
    /\ UNCHANGED <<proc, sConn, sPeerClosed, sBuf, sOut, sLog, sRcvd, sSeen>>
    /\ UNCHANGED cVars

\* a remote peer closes its socket; bytes it wrote may still be on their way
PeerClose(c) ==
    /\ sConn[c] = "open"
    /\ ~sPeerClosed[c]
    /\ sPeerClosed' = [sPeerClosed EXCEPT ![c] = TRUE]
    /\ UNCHANGED <<proc, sConn, sWire, sBuf, sOut, sLog, sRcvd, sSeen, peerWrites>>
    /\ UNCHANGED cVars

\* the transport hands the next n bytes to the 'data' handler as one chunk
ServerData(c, t) ==
    /\ proc.pc = "listening"
    /\ sConn[c] = "open"
    /\ \E n \in 1..Len(sWire[c]) :
          /\ OnServerData(c, SubSeq(sWire[c], 1, n), t)
          /\ sWire' = [sWire EXCEPT ![c] = SubSeq(@, n + 1, Len(@))]
    /\ UNCHANGED <<proc, sConn, sPeerClosed, peerWrites>>
    /\ UNCHANGED cVars

\* variant: no 'error' handler is registered, the 'error' event is thrown
OnServerErrorUnhandled(c) ==
    /\ proc' = [proc EXCEPT !.pc = "crashed"]
    /\ UNCHANGED <<sBuf, sOut, sLog>>

\* socket.on("error", (e) => console.warn(...))
OnServerError(c) ==
    /\ UNCHANGED <<proc, sBuf, sOut, sLog>>

\* a transport error on an accepted socket: 'error' is emitted and the socket
\* is destroyed, unread bytes are lost
ServerError(c) ==
    /\ proc.pc = "listening"
    /\ sConn[c] = "open"
    /\ sConn' = [sConn EXCEPT ![c] = "errored"]
    /\ sWire' = [sWire EXCEPT ![c] = <<>>]
    /\ OnServerError(c)
    /\ UNCHANGED <<sPeerClosed, sRcvd, sSeen, peerWrites>>
    /\ UNCHANGED cVars

\* the accepted socket closes after the remote peer has closed and every byte
\* has been read: no handler is registered for 'end' or 'close'
ServerClose(c) ==
    /\ sConn[c] = "open"
    /\ sWire[c] = <<>>
    /\ sConn' = [sConn EXCEPT ![c] = "closed"]
    /\ sPeerClosed' = [sPeerClosed EXCEPT ![c] = TRUE]
    /\ UNCHANGED <<proc, sWire, sBuf, sOut, sLog, sRcvd, sSeen, peerWrites>>
    /\ UNCHANGED cVars

Next ==
    \/ \E c \in Conns : Accept(c)
    \/ \E c \in Conns, l \in PeerLines, term \in BOOLEAN : PeerWrite(c, l, term)
    \/ \E c \in Conns, t \in Times : ServerData(c, t)
    \/ \E c \in Conns : ServerError(c)
    \/ \E c \in Conns : ServerClose(c)

Spec == Init /\ [][Next]_vars

\* the same listener, with remote peers that may close while bytes they wrote
\* are still on their way
CloseLines == {Stringify(MsgRec("A", "hi")), <<GARB>>}

CloseNext ==
    \/ \E c \in Conns : Accept(c)
    \/ \E c \in Conns, l \in CloseLines, term \in BOOLEAN : PeerWrite(c, l, term)
    \/ \E c \in Conns : PeerClose(c)
    \/ \E c \in Conns, t \in Times : ServerData(c, t)
    \/ \E c \in Conns : ServerError(c)
    \/ \E c \in Conns : ServerClose(c)

CloseSpec == Init /\ [][CloseNext]_vars

(* ------------------------------- Sender -------------------------------- *)
\* what a remote server may write to a call before a terminator
ReplyLines ==
    { Stringify(AckOk("1")),
      Stringify(AckErr("bad_json")),
      Stringify(MsgRec("A", "hi")),
      <<Scal("num", "1")>>,
      <<GARB>>,
      <<>> }
\* lines a remote server may also write without their terminator
ReplyTails == {<<GARB>>}
\* opts.from of the calls made against a remote server
SendNames == {"A"}

\* variant: a resolve that replaces an already settled value
ResolveOverwrite(cur, val) == val

\* the resolve function of new Promise: only the first call settles it
Resolve(cur, val) == IF cur = Pending THEN val ELSE cur

\* variant: an Acknowledgement whose ok is false is reported as null
ResolveLineOkOnly(cur, line) ==
    LET ack == JSONParse(line) IN
    IF ack = SyntaxError \/ ack.f["ok"] # Bool("true") THEN Resolve(cur, JSNull) ELSE Resolve(cur, ack)

\* try { resolve(JSON.parse(line) as Ack) } catch { resolve(null) }
ResolveLine(cur, line) ==
    LET ack == JSONParse(line) IN
    IF ack = SyntaxError THEN Resolve(cur, JSNull) ELSE Resolve(cur, ack)

\* sendMessage(opts): net.createConnection(...), handlers registered, buf = ""
SendMessage(k, from, text) ==
    /\ cState[k] = "idle"
    /\ cState' = [cState EXCEPT ![k] = "connecting"]
    /\ cOpts' = [cOpts EXCEPT ![k] = [from |-> from, text |-> text]]
    /\ cAttempts' = [cAttempts EXCEPT ![k] = @ + 1]
    /\ UNCHANGED <<cWire, cBuf, cResult, cOut, replies>>
    /\ UNCHANGED sVars

\* variant: the payload is written without its "\n"
ConnectNoTerminator(k) ==
    /\ cState[k] = "connecting"
    /\ cState' = [cState EXCEPT ![k] = "open"]
    /\ cOut' = [cOut EXCEPT ![k] = Append(@, Stringify(MsgRec(cOpts[k].from, cOpts[k].text)))]
    /\ UNCHANGED <<cOpts, cWire, cBuf, cResult, cAttempts, replies>>
    /\ UNCHANGED sVars

\* the connect callback: socket.write(JSON.stringify(payload) + "\n")
Connect(k) ==
    /\ cState[k] = "connecting"
    /\ cState' = [cState EXCEPT ![k] = "open"]
    /\ cOut' = [cOut EXCEPT ![k] =
                  Append(@, Stringify(MsgRec(cOpts[k].from, cOpts[k].text)) \o <<NL>>)]
    /\ UNCHANGED <<cOpts, cWire, cBuf, cResult, cAttempts, replies>>
    /\ UNCHANGED sVars

\* variant: one 'error' handler shared by every call in flight
OnClientErrorAll(k) ==
    /\ cResult' = [j \in Calls |-> IF cState[j] = "idle" THEN cResult[j]
                                    ELSE Resolve(cResult[j], JSNull)]
    /\ cWire' = [cWire EXCEPT ![k] = <<>>]
    /\ UNCHANGED <<cOpts, cBuf, cOut, cAttempts, replies>>

\* variant: an 'error' handler that only logs
OnClientErrorLogOnly(k) ==
    /\ cWire' = [cWire EXCEPT ![k] = <<>>]
    /\ UNCHANGED <<cOpts, cBuf, cResult, cOut, cAttempts, replies>>

\* socket.on("error", ...): resolve(null)
OnClientError(k) ==
    /\ cResult' = [cResult EXCEPT ![k] = Resolve(@, JSNull)]
    /\ cWire' = [cWire EXCEPT ![k] = <<>>]
    /\ UNCHANGED <<cOpts, cBuf, cOut, cAttempts, replies>>

\* the connection attempt fails: 'error' is emitted, the connect callback never runs
ConnectFail(k) ==
    /\ cState[k] = "connecting"
    /\ cState' = [cState EXCEPT ![k] = "failed"]
    /\ OnClientError(k)
    /\ UNCHANGED sVars

\* a transport error on the established connection: 'error', socket destroyed
ClientError(k) ==
    /\ cState[k] \in {"open", "ended"}
    /\ cState' = [cState EXCEPT ![k] = "errored"]
    /\ OnClientError(k)
    /\ UNCHANGED sVars

\* the remote server writes a line, with or without its terminator
RemoteWrite(k, l, term) ==
    /\ cState[k] \in {"open", "ended"}
    /\ term \/ l \in ReplyTails
    /\ replies < MaxReplies
    /\ replies' = replies + 1
    /\ cWire' = [cWire EXCEPT ![k] = @ \o l \o (IF term THEN <<NL>> ELSE <<>>)]
    /\ UNCHANGED <<cState, cOpts, cBuf, cResult, cOut, cAttempts>>
    /\ UNCHANGED sVars

\* variant: the first 'data' event is parsed whether or not it holds a "\n"
OnClientDataEager(k, chunk) ==
    LET buf == cBuf[k] \o chunk
        idx == IndexOfNL(buf)
    IN /\ cBuf' = [cBuf EXCEPT ![k] = buf]
       /\ cResult' = [cResult EXCEPT ![k] =
                         ResolveLine(@, IF idx > 0 THEN SubSeq(buf, 1, idx - 1) ELSE buf)]
       /\ cState' = [cState EXCEPT ![k] = "ended"]
       /\ UNCHANGED cOut

\* variant: the payload is written again when the first line does not parse
OnClientDataResend(k, chunk) ==
    LET buf == cBuf[k] \o chunk
        idx == IndexOfNL(buf)
    IN /\ cBuf' = [cBuf EXCEPT ![k] = buf]
       /\ IF idx > 0
          THEN /\ cResult' = [cResult EXCEPT ![k] = ResolveLine(@, SubSeq(buf, 1, idx - 1))]
               /\ cState' = [cState EXCEPT ![k] = "ended"]
               /\ cOut' = [cOut EXCEPT ![k] =
                             IF JSONParse(SubSeq(buf, 1, idx - 1)) = SyntaxError
                             THEN Append(@, Stringify(MsgRec(cOpts[k].from, cOpts[k].text)) \o <<NL>>)
                             ELSE @]
          ELSE UNCHANGED <<cResult, cState, cOut>>

\* socket.on("data", (chunk) => { buf += chunk; if (idx >= 0) { ...; socket.end() } })
OnClientData(k, chunk) ==
    LET buf == cBuf[k] \o chunk
        idx == IndexOfNL(buf)
    IN /\ cBuf' = [cBuf EXCEPT ![k] = buf]
       /\ IF idx > 0
          THEN /\ cResult' = [cResult EXCEPT ![k] = ResolveLine(@, SubSeq(buf, 1, idx - 1))]
               /\ cState' = [cState EXCEPT ![k] = "ended"]
               /\ UNCHANGED cOut
          ELSE UNCHANGED <<cResult, cState, cOut>>

\* the transport hands the next n bytes to the call's 'data' handler
ClientData(k) ==
    /\ cState[k] \in {"open", "ended"}
    /\ \E n \in 1..Len(cWire[k]) :
          /\ OnClientData(k, SubSeq(cWire[k], 1, n))
          /\ cWire' = [cWire EXCEPT ![k] = SubSeq(@, n + 1, Len(@))]
    /\ UNCHANGED <<cOpts, cAttempts, replies>>
    /\ UNCHANGED sVars

\* socket.on("close", () => { /* no-op */ }): the remote end has closed
ClientClose(k) ==
    /\ cState[k] \in {"open", "ended"}
    /\ cWire[k] = <<>>
    /\ cState' = [cState EXCEPT ![k] = "closed"]
    /\ UNCHANGED <<cOpts, cWire, cBuf, cResult, cOut, cAttempts, replies>>
    /\ UNCHANGED sVars

SenderNext ==
    \/ \E k \in Calls, from \in SendNames, text \in Texts : SendMessage(k, from, text)
    \/ \E k \in Calls : Connect(k)
    \/ \E k \in Calls : ConnectFail(k)
    \/ \E k \in Calls : ClientError(k)
    \/ \E k \in Calls, l \in ReplyLines, term \in BOOLEAN : RemoteWrite(k, l, term)
    \/ \E k \in Calls : ClientData(k)
    \/ \E k \in Calls : ClientClose(k)

SenderSpec == Init /\ [][SenderNext]_vars

(* ------------------- one line through the handler ---------------------- *)
MemberToks ==
    { Fld("type", "str", "msg"), Fld("type", "str", "other"),
      Fld("from", "str", "A"), Fld("from", "num", "1"),
      Fld("text", "str", "hi"), Fld("text", "bool", "true") }
RECURSIVE MemberSeqs(_)
MemberSeqs(n) ==
    IF n = 0 THEN {<<>>}
    ELSE MemberSeqs(n - 1) \cup {Append(ms, m) : ms \in MemberSeqs(n - 1), m \in MemberToks}
\* record texts, closed or not, scalars and garbage, with optional whitespace
LineBodies ==
    {<<LB>> \o ms \o <<RB>> : ms \in MemberSeqs(MaxMembers)}
    \cup {<<LB>> \o ms : ms \in MemberSeqs(MaxMembers)}
    \cup {<<GARB>>, <<Scal("null", "")>>, <<Scal("num", "1")>>, <<Scal("str", "msg")>>}
ClassifyLines ==
    LineBodies \cup {<<SP>> \o b : b \in LineBodies} \cup {b \o <<SP>> : b \in LineBodies}

\* one accepted connection with one terminated line in flight
ClassifyInit ==
    /\ proc = Listening
    /\ sPeerClosed = [c \in Conns |-> FALSE]
    /\ sConn = [c \in Conns |-> IF c = "c1" THEN "open" ELSE "idle"]
    /\ \E l \in ClassifyLines : sWire = [c \in Conns |-> IF c = "c1" THEN l \o <<NL>> ELSE <<>>]
    /\ sBuf = [c \in Conns |-> <<>>]
    /\ sOut = [c \in Conns |-> <<>>]
    /\ sLog = [c \in Conns |-> <<>>]
    /\ sRcvd = [c \in Conns |-> <<>>]
    /\ sSeen = [c \in Conns |-> [split |-> FALSE, multi |-> FALSE]]
    /\ peerWrites = 1
    /\ cState = [k \in Calls |-> "idle"]
    /\ cOpts = [k \in Calls |-> NoOpts]
    /\ cWire = [k \in Calls |-> <<>>]
    /\ cBuf = [k \in Calls |-> <<>>]
    /\ cResult = [k \in Calls |-> Pending]
    /\ cOut = [k \in Calls |-> <<>>]
    /\ cAttempts = [k \in Calls |-> 0]
    /\ replies = 0

ClassifyNext == \E t \in Times : ServerData("c1", t)

ClassifySpec == ClassifyInit /\ [][ClassifyNext]_vars

(* ------------------------ Sender to Handler ---------------------------- *)
\* the accepted socket that serves each call's connection
Link == [k \in Calls |-> IF k = "k1" THEN "c1" ELSE "c2"]

RECURSIVE Flatten(_)
Flatten(ws) == IF ws = <<>> THEN <<>> ELSE Head(ws) \o Flatten(Tail(ws))

\* the listener accepts the connection the call has opened
LinkAccept(k) ==
    /\ cState[k] = "open"
    /\ Accept(Link[k])

\* the transport hands the next bytes written by the call to the handler
LinkToServer(k, t) ==
    LET sent == Flatten(cOut[k])
        got == Len(sRcvd[Link[k]])
    IN /\ sConn[Link[k]] = "open"
       /\ \E n \in 1..(Len(sent) - got) :
             \E chunk \in {SubSeq(sent, got + 1, got + n)} : OnServerData(Link[k], chunk, t)
       /\ UNCHANGED <<proc, sConn, sPeerClosed, sWire, peerWrites>>
       /\ UNCHANGED cVars

\* the transport hands the next bytes written by the handler to the call
LinkToClient(k) ==
    LET sent == Flatten(sOut[Link[k]])
        got == Len(cBuf[k])
    IN /\ cState[k] \in {"open", "ended"}
       /\ \E n \in 1..(Len(sent) - got) :
             \E chunk \in {SubSeq(sent, got + 1, got + n)} : OnClientData(k, chunk)
       /\ UNCHANGED <<cOpts, cWire, cAttempts, replies>>
       /\ UNCHANGED sVars

\* the handler's socket sees the call's socket.end() after all its bytes
LinkServerClose(k) ==
    /\ cState[k] = "ended"
    /\ Len(sRcvd[Link[k]]) = Len(Flatten(cOut[k]))
    /\ ServerClose(Link[k])

\* the call's socket closes once both directions have ended
LinkClientClose(k) ==
    /\ sConn[Link[k]] = "closed"
    /\ Len(cBuf[k]) = Len(Flatten(sOut[Link[k]]))
    /\ ClientClose(k)

LinkNext ==
    \/ \E k \in Calls, from \in Names, text \in Texts : SendMessage(k, from, text)
    \/ \E k \in Calls : Connect(k)
    \/ \E k \in Calls : LinkAccept(k)
    \/ \E k \in Calls, t \in Times : LinkToServer(k, t)
    \/ \E k \in Calls : LinkToClient(k)
    \/ \E k \in Calls : LinkServerClose(k)
    \/ \E k \in Calls : LinkClientClose(k)

\* an event that is ready is eventually run: the transport delivers every
\* byte and the event loop runs the callbacks of every established call
LinkProgress ==
    \E k \in Calls :
        \/ Connect(k)
        \/ LinkAccept(k)
        \/ \E t \in Times : LinkToServer(k, t)
        \/ LinkToClient(k)
LinkFairness == WF_vars(LinkProgress)

LinkSpec == Init /\ [][LinkNext]_vars /\ LinkFairness

(* ------------------------------ startup -------------------------------- *)
MinPort == 1
MaxPort == 65535

\* values of Number(arg("--port", "5050")): NaN, and numbers around the limits
ArgPorts ==
    {Port(TRUE, 0)} \cup {Port(FALSE, n) : n \in {-1, 0, MinPort, DefaultPort, MaxPort, MaxPort + 1}}
\* values of arg("--to") and arg("--text"); "" stands for undefined
ArgTo == {"", "10.0.0.2"}
ArgText == {"", "hi"}

\* variant: the upper limit of the port is not checked
InvalidPortNoUpper(p) == p.nan \/ p.n < MinPort

\* Number.isNaN(PORT) || PORT < 1 || PORT > 65535
InvalidPort(p) == p.nan \/ p.n < MinPort \/ p.n > MaxPort

\* the process has read its arguments and has run nothing else yet
StartInit ==
    /\ proc \in {[pc |-> "start", port |-> p, name |-> "Anonymous",
                   sendMode |-> m, to |-> to, text |-> text] :
                      p \in ArgPorts, m \in BOOLEAN, to \in ArgTo, text \in ArgText}
    /\ sPeerClosed = [c \in Conns |-> FALSE]
    /\ sConn = [c \in Conns |-> "idle"]
    /\ sWire = [c \in Conns |-> <<>>]
    /\ sBuf = [c \in Conns |-> <<>>]
    /\ sOut = [c \in Conns |-> <<>>]
    /\ sLog = [c \in Conns |-> <<>>]
    /\ sRcvd = [c \in Conns |-> <<>>]
    /\ sSeen = [c \in Conns |-> [split |-> FALSE, multi |-> FALSE]]
    /\ peerWrites = 0
    /\ cState = [k \in Calls |-> "idle"]
    /\ cOpts = [k \in Calls |-> NoOpts]
    /\ cWire = [k \in Calls |-> <<>>]
    /\ cBuf = [k \in Calls |-> <<>>]
    /\ cResult = [k \in Calls |-> Pending]
    /\ cOut = [k \in Calls |-> <<>>]
    /\ cAttempts = [k \in Calls |-> 0]
    /\ replies = 0

\* if (Number.isNaN(PORT) || PORT < 1 || PORT > 65535) { ...; process.exit(1) }
ValidatePort ==
    /\ proc.pc = "start"
    /\ proc' = [proc EXCEPT !.pc = IF InvalidPort(proc.port) THEN "exit1" ELSE "dispatch"]
    /\ UNCHANGED <<sConn, sPeerClosed, sWire, sBuf, sOut, sLog, sRcvd, sSeen, peerWrites>>
    /\ UNCHANGED cVars

\* if (SEND_MODE) { if (!TO || !TEXT) { ...; process.exit(1) } sendMessage(...) }
\* else { startServer(PORT); ... }
Dispatch ==
    /\ proc.pc = "dispatch"
    /\ IF proc.sendMode
       THEN IF proc.to = "" \/ proc.text = ""
            THEN /\ proc' = [proc EXCEPT !.pc = "exit1"]
                 /\ UNCHANGED cVars
            ELSE /\ proc' = [proc EXCEPT !.pc = "sending"]
                 /\ cState' = [cState EXCEPT !["k1"] = "connecting"]
                 /\ cOpts' = [cOpts EXCEPT !["k1"] = [from |-> proc.name, text |-> proc.text]]
                 /\ cAttempts' = [cAttempts EXCEPT !["k1"] = @ + 1]
                 /\ UNCHANGED <<cWire, cBuf, cResult, cOut, replies>>
       ELSE /\ proc' = [proc EXCEPT !.pc = "listening"]
            /\ UNCHANGED cVars
    /\ UNCHANGED <<sConn, sPeerClosed, sWire, sBuf, sOut, sLog, sRcvd, sSeen, peerWrites>>

StartNext == ValidatePort \/ Dispatch

StartSpec == StartInit /\ [][StartNext]_vars

(* ------------------------------ properties ----------------------------- *)
\* the terminated lines of a byte sequence, in order, without the terminators
RECURSIVE CompleteLines(_)
CompleteLines(s) ==
    LET idx == IndexOfNL(s) IN
    IF idx = 0 THEN <<>>
    ELSE <<SubSeq(s, 1, idx - 1)>> \o CompleteLines(SubSeq(s, idx + 1, Len(s)))
NonEmptyLines(s) == SelectSeq(CompleteLines(s), LAMBDA l : Trim(l) # <<>>)

\* the three classes of a non-empty line
LineClass(line) ==
    LET p == JSONParse(line) IN
    IF p = SyntaxError THEN "bad_json"
    ELSE IF /\ p.kind = "obj"
            /\ p.f["type"] = Str("msg")
            /\ p.f["from"].t = "str"
            /\ p.f["text"].t = "str"
         THEN "ok"
         ELSE "unknown_type_or_shape"

\* the written string w is one terminated Acknowledgement of the class of line
AckAnswers(w, line) ==
    /\ Len(w) >= 1
    /\ w[Len(w)] = NL
    /\ LET a == JSONParse(SubSeq(w, 1, Len(w) - 1)) IN
       IF LineClass(line) = "ok"
       THEN \E t \in Times : a = AckOk(t)
       ELSE a = AckErr(LineClass(line))

\* C1: on every accepted connection the handler has written exactly one
\* Acknowledgement per complete non-empty line received so far, and the k-th
\* Acknowledgement answers the k-th such line.
C1_OneAckPerLineInOrder ==
    \A c \in Conns :
        LET ls == NonEmptyLines(sRcvd[c]) IN
        /\ Len(sOut[c]) = Len(ls)
        /\ \A k \in 1..Len(ls) : AckAnswers(sOut[c][k], ls[k])

\* two frames of different classes arrived in one chunk and both were answered
C1_Witness ==
    \E c \in Conns :
        /\ sSeen[c].multi
        /\ ~sSeen[c].split
        /\ Len(sOut[c]) = 2
        /\ sOut[c][1] # sOut[c][2]

IsAck(val) ==
    /\ val.kind = "obj"
    /\ val.f["type"] = Str("ack")
    /\ val.f["ok"].t = "bool"

\* C5: no call remains pending on a connection that has ended, whether by a
\* failed attempt, a transport error or the peer closing.
C5_NoPendingOnEndedConnection ==
    \A k \in Calls : cState[k] \in {"failed", "errored", "closed"} => cResult[k] # Pending

\* C6: a call whose connection attempt failed is resolved with null, has
\* written no frame and has made exactly one connection attempt.
C6_ConnectFailureGivesNull ==
    \A k \in Calls :
        cState[k] = "failed" => (cResult[k] = JSNull /\ cOut[k] = <<>> /\ cAttempts[k] = 1)

\* a connection attempt has failed
C6_Witness == \E k \in Calls : cState[k] = "failed"

\* C7: once a call has received its first complete line, it is resolved with
\* null if the line does not parse, and with the parsed Acknowledgement,
\* unchanged, if the line parses as one (whatever its ok field).
C7_FirstFrameDecidesResult ==
    \A k \in Calls :
        LET idx == IndexOfNL(cBuf[k]) IN
        idx > 0 =>
            LET p == JSONParse(SubSeq(cBuf[k], 1, idx - 1)) IN
            /\ p = SyntaxError => cResult[k] = JSNull
            /\ (p # SyntaxError /\ IsAck(p)) => cResult[k] = p

\* one call resolved with an ok=false Acknowledgement, another received an
\* unparseable first line and resolved with null
C7_Witness ==
    \E k1, k2 \in Calls :
        /\ cResult[k1] = AckErr("bad_json")
        /\ IndexOfNL(cBuf[k2]) > 0
        /\ JSONParse(SubSeq(cBuf[k2], 1, IndexOfNL(cBuf[k2]) - 1)) = SyntaxError
        /\ cResult[k2] = JSNull

\* C8: a call is only ever resolved with null or with an Acknowledgement record.
C8_ResultIsNullOrAck ==
    \A k \in Calls : cResult[k] \in {Pending, JSNull} \/ IsAck(cResult[k])

\* C9: once a call is resolved, no later event changes the resolved value.
C9_SettledAtMostOnce ==
    [][\A k \in Calls : cResult[k] # Pending => cResult'[k] = cResult[k]]_vars

\* a call resolved with an Acknowledgement, then received a further line,
\* then had a transport error
C9_Witness ==
    \E k \in Calls :
        /\ cState[k] = "errored"
        /\ IsAck(cResult[k])
        /\ Len(CompleteLines(cBuf[k])) = 2

\* C10: a call makes one connection attempt, writes nothing before the
\* connection is established, and from then on has written exactly its one
\* Message frame.
C10_OneConnectionOneFrame ==
    \A k \in Calls :
        /\ cAttempts[k] <= 1
        /\ cState[k] \in {"idle", "connecting", "failed"} => cOut[k] = <<>>
        /\ cState[k] \in {"open", "ended", "errored", "closed"} =>
              /\ cAttempts[k] = 1
              /\ cOut[k] = << Stringify(MsgRec(cOpts[k].from, cOpts[k].text)) \o <<NL>> >>

\* a call has received two lines, the first unparseable, and has still
\* written one frame
C10_Witness ==
    \E k \in Calls :
        /\ cState[k] = "ended"
        /\ Len(CompleteLines(cBuf[k])) = 2
        /\ cResult[k] = JSNull
        /\ Len(cOut[k]) = 1

\* C2: the Acknowledgement written for a non-empty line is ok=true with
\* receivedAt and no error exactly when the line parses to a record of type
\* "msg" with string from and text, and only then is the message reported;
\* it is the bad_json Acknowledgement exactly when the line does not parse;
\* it is the unknown_type_or_shape Acknowledgement in every other case.
C2_Classification ==
    \A c \in Conns :
        (sRcvd[c] # <<>> /\ sWire[c] = <<>>) =>
            LET line == SubSeq(sRcvd[c], 1, Len(sRcvd[c]) - 1)
                p == JSONParse(line)
                valid == /\ p # SyntaxError
                         /\ p.kind = "obj"
                         /\ p.f["type"] = Str("msg")
                         /\ p.f["from"].t = "str"
                         /\ p.f["text"].t = "str"
                a == JSONParse(SubSeq(sOut[c][1], 1, Len(sOut[c][1]) - 1))
            IN /\ Len(sOut[c]) = 1
               /\ sOut[c][1][Len(sOut[c][1])] = NL
               /\ valid <=> (\E t \in Times : a = AckOk(t))
               /\ valid <=> (sLog[c] = <<[from |-> p.f["from"].v, text |-> p.f["text"].v]>>)
               /\ ~valid => sLog[c] = <<>>
               /\ (p = SyntaxError) <=> (a = AckErr("bad_json"))
               /\ (~valid /\ p # SyntaxError) <=> (a = AckErr("unknown_type_or_shape"))

\* a record of type "msg" whose text is not a string was answered unknown_type_or_shape
C2_Witness ==
    /\ sWire["c1"] = <<>>
    /\ sRcvd["c1"] = <<LB, Fld("type", "str", "msg"), Fld("from", "str", "A"),
                       Fld("text", "bool", "true"), RB, NL>>
    /\ sOut["c1"] = << Stringify(AckErr("unknown_type_or_shape")) \o <<NL>> >>

LineValue(line) == IF JSONParse(line) = SyntaxError THEN JSNull ELSE JSONParse(line)

CallState(k) == <<cOpts[k], cState[k], cBuf[k], cResult[k], cOut[k]>>

\* C15: concurrent sendMessage calls are independent: a step of one call
\* (connect, data, error, close) leaves every other call's connection, buffer
\* and result as they were, and a resolved call's result is a function of its
\* own connection only: the value of its own first line, or null when it has
\* received no complete line.
C15_CallsIndependent ==
    /\ [](\A k \in Calls :
            cResult[k] # Pending =>
                cResult[k] = IF IndexOfNL(cBuf[k]) > 0
                             THEN LineValue(SubSeq(cBuf[k], 1, IndexOfNL(cBuf[k]) - 1))
                             ELSE JSNull)
    /\ [][\A k, j \in Calls :
            (k # j /\ CallState(k)' # CallState(k)) => CallState(j)' = CallState(j)]_vars

\* two calls were in flight together; one failed with null, the other went on
\* to resolve with the Ack of its own connection
C15_Witness ==
    \E k, j \in Calls :
        /\ cState[k] = "errored"
        /\ cResult[k] = JSNull
        /\ cState[j] = "ended"
        /\ cResult[j] = AckOk("1")
        /\ cBuf[k] = <<>>

\* C18: the Sender frames its inbound bytes as the Connection Handler does:
\* when the reply starts with one or more empty lines followed by an
\* Acknowledgement line, a resolved call has resolved with that
\* Acknowledgement and not with null.
C18_SenderSkipsEmptyLines ==
    \A k \in Calls :
        LET all == CompleteLines(cBuf[k])
            ls  == NonEmptyLines(cBuf[k])
        IN (/\ cResult[k] # Pending
            /\ Len(all) >= 2
            /\ Trim(all[1]) = <<>>
            /\ Len(ls) >= 1
            /\ IsAck(JSONParse(Trim(ls[1]))))
           => cResult[k] = JSONParse(Trim(ls[1]))

\* C12: once an accepted connection has had a transport error the listener is
\* still listening: a connection not yet accepted can be accepted, and on every
\* other open connection bytes that have arrived can be handed to the handler,
\* which has acknowledged every complete non-empty line it was given.
C12_ListenerSurvivesErrors ==
    \A c \in Conns :
        sConn[c] = "errored" =>
            /\ proc.pc = "listening"
            /\ \A d \in Conns \ {c} :
                  /\ sConn[d] = "idle" => ENABLED Accept(d)
                  /\ (sConn[d] = "open" /\ sWire[d] # <<>>) =>
                        ENABLED (\E t \in Times : ServerData(d, t))
                  /\ Len(sOut[d]) = Len(NonEmptyLines(sRcvd[d]))

\* one connection has errored before any byte of it was read; another is open
\* and a frame that arrived on it has been acknowledged
C12_Witness ==
    \E c, d \in Conns :
        /\ sConn[c] = "errored"
        /\ sRcvd[c] = <<>>
        /\ sConn[d] = "open"
        /\ Len(sOut[d]) = 1
        /\ Len(NonEmptyLines(sRcvd[d])) = 1

\* C13: the handler writes no Acknowledgement to a connection that has
\* errored or that either peer has closed, frames that were already on their
\* way when the remote peer closed included.
C13_NoWriteAfterClose ==
    [][\A c \in Conns :
          (sPeerClosed[c] \/ sConn[c] \in {"errored", "closed"}) => sOut'[c] = sOut[c]]_vars

\* an Acknowledgement as written, without its time of receipt
AckSansTime(w) ==
    LET a == JSONParse(SubSeq(w, 1, Len(w) - 1)) IN [a EXCEPT !.f["receivedAt"] = Undef]

\* C14: accepted connections are isolated: two connections that have received
\* the same bytes hold the same buffer and have written the same
\* Acknowledgements (up to the time of receipt), whatever happened on them in
\* between, and a 'data' event on one connection leaves the buffer and the
\* Acknowledgements of every other connection unchanged.
C14_ConnectionsIsolated ==
    /\ [](\A c, d \in Conns :
            sRcvd[c] = sRcvd[d] =>
                /\ sBuf[c] = sBuf[d]
                /\ Len(sOut[c]) = Len(sOut[d])
                /\ \A i \in 1..Len(sOut[c]) : AckSansTime(sOut[c][i]) = AckSansTime(sOut[d][i]))
    /\ [][\A c, d \in Conns :
            (c # d /\ sRcvd'[c] # sRcvd[c]) => (sBuf'[d] = sBuf[d] /\ sOut'[d] = sOut[d])]_vars

\* both connections are open, one holding the start of a frame in its buffer,
\* the other having acknowledged a whole frame with an empty buffer
C14_Witness ==
    \E c, d \in Conns :
        /\ sConn[c] = "open"
        /\ sConn[d] = "open"
        /\ sBuf[c] # <<>>
        /\ sOut[c] = <<>>
        /\ sBuf[d] = <<>>
        /\ Len(sOut[d]) = 1

\* the positions of the lines that are empty after trim()
BlankAt(ls) == {i \in 1..Len(ls) : Trim(ls[i]) = <<>>}

\* C16: a line that is empty after trimming gives no frame: the handler has
\* written one Acknowledgement for each complete line that is not empty and
\* none for the empty ones, has reported no message for them, and the
\* Acknowledgement of a line before or after an empty line is the one that
\* line gets on its own; a 'data' event that completes only empty lines writes
\* and reports nothing.
C16_EmptyLinesSkipped ==
    /\ [](\A c \in Conns :
            LET all == CompleteLines(sRcvd[c])
                blank == BlankAt(all)
            IN /\ Len(sOut[c]) = Len(all) - Cardinality(blank)
               /\ Len(sLog[c]) <= Len(all) - Cardinality(blank)
               /\ \A i \in (1..Len(all)) \ blank :
                     LET k == i - Cardinality({j \in blank : j < i})
                     IN sOut[c][k] \in {Stringify(AckFor(Trim(all[i]), t)) \o <<NL>> : t \in Times})
    /\ [][\A c \in Conns :
            NonEmptyLines(sRcvd'[c]) = NonEmptyLines(sRcvd[c]) =>
                (sOut'[c] = sOut[c] /\ sLog'[c] = sLog[c])]_vars

\* a whitespace-only line and then a frame were received; only the frame was
\* answered
C16_Witness ==
    \E c \in Conns :
        /\ CompleteLines(sRcvd[c]) = <<(<<SP>>), Stringify(MsgRec("A", "hi"))>>
        /\ Len(sOut[c]) = 1
        /\ Len(sLog[c]) = 1

\* the bytes after the last "\n" of s
RECURSIVE AfterLastNL(_)
AfterLastNL(s) ==
    IF IndexOfNL(s) = 0 THEN s ELSE AfterLastNL(SubSeq(s, IndexOfNL(s) + 1, Len(s)))

\* C17: between 'data' events the handler's buffer holds no terminator and is
\* exactly the bytes received after the last terminator; the bytes of an
\* unterminated last line have given no Acknowledgement and no reported
\* message, also when the connection has closed or errored with them in the
\* buffer.
C17_BufferIsUnterminatedTail ==
    \A c \in Conns :
        /\ IndexOfNL(sBuf[c]) = 0
        /\ sBuf[c] = AfterLastNL(sRcvd[c])
        /\ Len(sOut[c]) <= Len(CompleteLines(sRcvd[c]))
        /\ Len(sLog[c]) <= Len(CompleteLines(sRcvd[c]))

\* a connection closed with the start of a frame in its buffer, after one
\* earlier frame; only the earlier frame was answered
C17_Witness ==
    \E c \in Conns :
        /\ sConn[c] = "closed"
        /\ sBuf[c] # <<>>
        /\ Len(CompleteLines(sRcvd[c])) = 1
        /\ Len(sOut[c]) = 1

\* the configured port is not a number, is below 1 or is above 65535
BadPort == proc.port.nan \/ proc.port.n < 1 \/ proc.port.n > 65535
\* the one-off send mode was asked for without a target or without a text
BadUsage == proc.sendMode /\ (proc.to = "" \/ proc.text = "")
\* a listener has been started or an outbound connection has been opened
Networking == proc.pc = "listening" \/ \E k \in Calls : cState[k] # "idle"

====
